---- MODULE Spec2Model ----
(***************************************************************************)
(* Supply-curve point aggregation (reV/supply_curve/aggregation.py).       *)
(*                                                                         *)
(* The model follows a caller of Aggregation.summary on one file system.   *)
(* The file system (exclusion file, generation file, tech-map artifact),   *)
(* the data behind each cell and the request (gids, option) are drawn in   *)
(* Init; n_cores is drawn at each call.  A call runs the tech-map gate,    *)
(* then the serial path (_serial_summary inline) or the parallel path      *)
(* (_parallel_summary: one _serial_summary task per chunk in a process     *)
(* pool), then the output assembly.                                        *)
(*                                                                         *)
(* Spec follows one call.  SpecTwoCalls follows up to MaxCalls calls in a  *)
(* row with the same gids, option and data, the caller keeping the         *)
(* outcome of the call before; it serves the properties that compare two   *)
(* calls.                                                                  *)
(***************************************************************************)
EXTENDS Integers, Sequences, FiniteSets, TLC

(***************************************************************************)
(* Bounds of the model.                                                    *)
(***************************************************************************)
\* number of cells of the supply-curve extent, len(sc)
ExtentLen == 4
\* longest explicit gids list a caller passes
MaxGids == 5
\* target number of gids per chunk; the code uses 1000 (aggregation.py:203),
\* the model scales it down so that several chunks arise from short lists
ChunkTarget == 3
\* os.cpu_count() of the machine
CpuCount == 1
\* largest explicit n_cores a caller passes
MaxCores == 2
\* calls to Aggregation.summary made by the caller
MaxCalls == 2
\* columns of the supply-curve extent grid
NCols == 2

(***************************************************************************)
(* Values.                                                                 *)
(***************************************************************************)
\* n_cores=None
NoCores == -1

AllGids == 0 .. (ExtentLen - 1)

Handles == {"sc", "excl", "gen", "techmap"}

\* what SupplyCurvePointSummary.summary does for a cell: returns a summary,
\* raises EmptySupplyCurvePointError, or raises another exception
Outcomes == {"ok", "empty", "fail"}

\* explicit gids lists: ascending runs and descending runs over the extent,
\* wrapping around (and so repeating gids) when longer than the extent
AscList(k) == [i \in 1 .. k |-> (i - 1) % ExtentLen]

DescList(k) == [i \in 1 .. k |-> (ExtentLen * k - i) % ExtentLen]

\* the gids argument: None, or a list
GidArgs ==
    {[isNone |-> TRUE, list |-> <<>>]}
    \cup {[isNone |-> FALSE, list |-> AscList(k)] : k \in 0 .. MaxGids}
    \cup {[isNone |-> FALSE, list |-> DescList(k)] : k \in 1 .. MaxGids}

NCoresArgs == {NoCores} \cup (1 .. MaxCores)

Options == {"dict", "dataframe"}

(***************************************************************************)
(* The point summarizer and the grid extent.                               *)
(***************************************************************************)
\* SupplyCurvePointSummary.summary with args=None: the four ARGS of the cell
PointSummary(gid) ==
    [resource_gids |-> {2 * gid, 2 * gid + 1},
     gen_gids |-> {gid},
     latitude |-> gid \div NCols,
     longitude |-> gid % NCols]

\* sc[gid]['row_ind'], sc[gid]['col_ind']
ScRowInd(gid) == gid \div NCols

ScColInd(gid) == gid % NCols

\* an injection that takes the column for the row and the row for the column
InjectSwapped(pointsum, gid) ==
    [sc_gid |-> gid,
     sc_row_ind |-> ScColInd(gid),
     sc_col_ind |-> ScRowInd(gid),
     resource_gids |-> pointsum.resource_gids,
     gen_gids |-> pointsum.gen_gids,
     latitude |-> pointsum.latitude,
     longitude |-> pointsum.longitude]

\* lines 160-162: the engine adds sc_gid, sc_row_ind, sc_col_ind
Inject(pointsum, gid) ==
    [sc_gid |-> gid,
     sc_row_ind |-> ScRowInd(gid),
     sc_col_ind |-> ScColInd(gid),
     resource_gids |-> pointsum.resource_gids,
     gen_gids |-> pointsum.gen_gids,
     latitude |-> pointsum.latitude,
     longitude |-> pointsum.longitude]

(***************************************************************************)
(* Python dict: a sequence of <<key, value>> entries in insertion order,   *)
(* keys pairwise distinct.                                                 *)
(***************************************************************************)
DictKeys(d) == {d[i].key : i \in 1 .. Len(d)}

DictGet(d, k) == (CHOOSE i \in 1 .. Len(d) : d[i].key = k)

\* d[k] = v: an existing key keeps its position and takes the new value
DictSet(d, k, v) ==
    IF k \in DictKeys(d)
    THEN [i \in 1 .. Len(d) |-> IF d[i].key = k THEN [key |-> k, val |-> v] ELSE d[i]]
    ELSE Append(d, [key |-> k, val |-> v])

RECURSIVE DictUpdate(_, _)
\* d.update(e)
DictUpdate(d, e) ==
    IF e = <<>> THEN d
    ELSE DictUpdate(DictSet(d, Head(e).key, Head(e).val), Tail(e))

\* dict equality: same keys, same value under each key, whatever the order
DictEq(d, e) ==
    /\ DictKeys(d) = DictKeys(e)
    /\ \A i \in 1 .. Len(d) : d[i].val = e[DictGet(e, d[i].key)].val

(***************************************************************************)
(* Chunking, line 203.                                                     *)
(***************************************************************************)
\* a chunk count that rounds down instead of up
NumChunksFloor(n) == n \div ChunkTarget

\* int(np.ceil(n / 1000))
NumChunks(n) == (n + ChunkTarget - 1) \div ChunkTarget

\* a split that forgets the extras: every section holds Neach_section items
SectionSizeNoExtras(ntotal, nsections, j) == ntotal \div nsections

\* a split in full chunks of the target size, the last taking the rest
SectionSizeFullFirst(ntotal, nsections, j) ==
    IF j < nsections - 1
    THEN ChunkTarget
    ELSE ntotal - ChunkTarget * (nsections - 1)

\* size of section j (0-based) of np.array_split: divmod(Ntotal, Nsections),
\* the first `extras` sections hold Neach_section + 1 items
SectionSize(ntotal, nsections, j) ==
    IF j < ntotal % nsections
    THEN (ntotal \div nsections) + 1
    ELSE ntotal \div nsections

RECURSIVE DivPoint(_, _, _)
\* div_points[j]: cumulative sum of the section sizes
DivPoint(ntotal, nsections, j) ==
    IF j = 0 THEN 0
    ELSE DivPoint(ntotal, nsections, j - 1) + SectionSize(ntotal, nsections, j - 1)

\* a split whose slices start one item early: neighbours overlap
ArraySplitOverlap(ary, nsections) ==
    [j \in 1 .. nsections |->
        SubSeq(ary,
               IF j = 1 THEN 1 ELSE DivPoint(Len(ary), nsections, j - 1),
               DivPoint(Len(ary), nsections, j))]

\* np.array_split(ary, nsections), nsections > 0: sub-array j is ary[st:end]
ArraySplit(ary, nsections) ==
    [j \in 1 .. nsections |->
        SubSeq(ary,
               DivPoint(Len(ary), nsections, j - 1) + 1,
               DivPoint(Len(ary), nsections, j))]

RECURSIVE Concat(_)
Concat(ss) == IF ss = <<>> THEN <<>> ELSE Head(ss) \o Concat(Tail(ss))

(***************************************************************************)
(* Output assembly, lines 281-285.                                         *)
(***************************************************************************)
\* pd.DataFrame(summary).T: one row per dict key, in insertion order;
\* set_index('sc_gid', drop=True): the row's sc_gid value becomes its index
SetIndex(d) ==
    [i \in 1 .. Len(d) |-> [index |-> d[i].val.sc_gid, row |-> d[i].val]]

RECURSIVE InsertRowDesc(_, _)
\* an insertion with the comparison reversed: descending order
InsertRowDesc(rows, r) ==
    IF rows = <<>> THEN <<r>>
    ELSE IF r.index > Head(rows).index THEN <<r>> \o rows
    ELSE <<Head(rows)>> \o InsertRowDesc(Tail(rows), r)

RECURSIVE InsertRow(_, _)
\* place of one row in the ascending order of the index
InsertRow(rows, r) ==
    IF rows = <<>> THEN <<r>>
    ELSE IF r.index < Head(rows).index THEN <<r>> \o rows
    ELSE <<Head(rows)>> \o InsertRow(Tail(rows), r)

\* an assembly that leaves the rows in dict insertion order
SortIndexNone(rows) == rows

RECURSIVE SortIndex(_)
\* DataFrame.sort_index(): rows in ascending index order
SortIndex(rows) ==
    IF rows = <<>> THEN <<>>
    ELSE InsertRow(SortIndex(Tail(rows)), Head(rows))

NoResult == [kind |-> "none", body |-> <<>>]

(***************************************************************************)
(* State.                                                                  *)
(***************************************************************************)
VARIABLES
    excl_ok,      \* the exclusion file exists and is readable
    gen_ok,       \* the generation file exists and is readable
    outcome,      \* per cell: what the point summarizer does on the data
    gids,         \* the gids argument of summary
    option,       \* the option argument of summary
    techmap,      \* the tech-map artifact: "absent", "writing", "present"
    call,         \* number of calls to summary entered so far
    pc,           \* where the call in progress stands
    n_cores,      \* the n_cores argument of the call in progress
    tm_at_start,  \* the artifact existed when the call was entered
    builds,       \* TechMapping.run_map invocations of the call in progress
    chunks,       \* _parallel_summary: chunks
    tasks,        \* _serial_summary invocations: inline (serial) or futures
    collected,    \* futures whose completion as_completed has yielded
    n_finished,   \* _parallel_summary: n_finished
    exc,          \* an exception is propagating out of the pool's with block
    summary,      \* the local variable summary of the path in progress
    ret,          \* what the call returned to the caller
    prev,         \* the caller's record of the call before this one
    point,        \* a call of SupplyCurvePointSummary.summary with args
    sim,          \* a SAM generation object, its engine data and its run
    pm,           \* a ParametersManager
    job           \* a CLI job: its status record and the commands run on it

env == <<excl_ok, gen_ok, outcome, gids, option>>

\* the objects that Aggregation.summary does not touch
others == <<point, sim, pm, job>>

\* the state of Aggregation.summary
aggvars == <<excl_ok, gen_ok, outcome, gids, option, techmap, call, pc,
             n_cores, tm_at_start, builds, chunks, tasks, collected,
             n_finished, exc, summary, ret, prev>>

vars == <<aggvars, others>>

\* an object that does not exist
NoObject == [st |-> "none"]

Range(s) == {s[i] : i \in 1 .. Len(s)}

\* an enumeration of the extent that stops one cell short
FullExtentShort == [i \in 1 .. (ExtentLen - 1) |-> i - 1]

\* range(len(sc)), lines 141 and 201
FullExtent == [i \in 1 .. ExtentLen |-> i - 1]

\* the gid list a call works on once None has been resolved
ResolvedGids == IF gids.isNone THEN FullExtent ELSE gids.list

NoPrev == [n_cores |-> NoCores, status |-> "none", ret |-> NoResult,
           tm_at_start |-> FALSE, tm_at_end |-> FALSE, builds |-> 0]

Init ==
    /\ excl_ok \in BOOLEAN
    /\ gen_ok \in BOOLEAN
    /\ gids \in GidArgs
    /\ outcome \in [AllGids -> Outcomes]
    \* data that no call reads is fixed: the cells that are not requested,
    \* and every cell when an input file cannot be opened
    /\ \A g \in AllGids :
          (g \notin Range(ResolvedGids) \/ ~excl_ok \/ ~gen_ok) => outcome[g] = "ok"
    /\ option \in Options
    /\ techmap \in {"absent", "present"}
    /\ call = 0
    /\ pc = "idle"
    /\ n_cores = NoCores
    /\ tm_at_start = FALSE
    /\ builds = 0
    /\ chunks = <<>>
    /\ tasks = <<>>
    /\ collected = {}
    /\ n_finished = 0
    /\ exc = FALSE
    /\ summary = <<>>
    /\ ret = NoResult
    /\ prev = NoPrev
    /\ point = NoObject
    /\ sim = NoObject
    /\ pm = NoObject
    /\ job = NoObject


(***************************************************************************)
(* Helpers of the paths.                                                   *)
(***************************************************************************)
\* max_workers of the ProcessPoolExecutor, lines 196-197 and 215
PoolSize == IF n_cores = NoCores THEN CpuCount ELSE n_cores

\* one invocation of _serial_summary, not yet started
NewTask(isNone, list) ==
    [isNone |-> isNone, gids |-> list, i |-> 1, st |-> "queued",
     handles |-> {}, local |-> <<>>]

TaskIds == 1 .. Len(tasks)

Terminal(t) == tasks[t].st \in {"done", "raised"}

Running == {t \in TaskIds : tasks[t].st = "running"}

(***************************************************************************)
(* Aggregation.summary, lines 267-271: the tech-map gate.                  *)
(***************************************************************************)
\* a gate that never finds the artifact
TechmapExistsNever == FALSE

\* os.path.exists(fpath_techmap), line 267
TechmapExists == techmap = "present"

\* a gate that starts the build and goes on without waiting for its return
CallNoWait(nc) ==
    /\ pc \in {"idle", "returned", "raised"}
    /\ call < MaxCalls
    /\ call' = call + 1
    /\ prev' = IF call = 0 THEN NoPrev
               ELSE [n_cores |-> n_cores, status |-> pc, ret |-> ret,
                     tm_at_start |-> tm_at_start,
                     tm_at_end |-> (techmap = "present"), builds |-> builds]
    /\ n_cores' = nc
    /\ tm_at_start' = (techmap = "present")
    /\ chunks' = <<>>
    /\ tasks' = <<>>
    /\ collected' = {}
    /\ n_finished' = 0
    /\ exc' = FALSE
    /\ summary' = <<>>
    /\ ret' = NoResult
    /\ IF TechmapExists
       THEN /\ builds' = 0
            /\ pc' = "dispatch"
            /\ UNCHANGED techmap
       ELSE /\ builds' = 1
            /\ techmap' = "writing"
            /\ pc' = "dispatch"
    /\ UNCHANGED <<env, others>>

\* the caller enters summary(n_cores=nc); os.path.exists(fpath_techmap)
Call(nc) ==
    /\ pc \in {"idle", "returned", "raised"}
    /\ call < MaxCalls
    /\ call' = call + 1
    /\ prev' = IF call = 0 THEN NoPrev
               ELSE [n_cores |-> n_cores, status |-> pc, ret |-> ret,
                     tm_at_start |-> tm_at_start,
                     tm_at_end |-> (techmap = "present"), builds |-> builds]
    /\ n_cores' = nc
    /\ tm_at_start' = (techmap = "present")
    /\ chunks' = <<>>
    /\ tasks' = <<>>
    /\ collected' = {}
    /\ n_finished' = 0
    /\ exc' = FALSE
    /\ summary' = <<>>
    /\ ret' = NoResult
    /\ IF TechmapExists
       THEN /\ builds' = 0
            /\ pc' = "dispatch"
            /\ UNCHANGED techmap
       ELSE /\ builds' = 1
            /\ techmap' = "writing"
            /\ pc' = "building"
    /\ UNCHANGED <<env, others>>

\* TechMapping.run_map returns: the artifact is written and closed
BuildReturns ==
    /\ pc = "building"
    /\ excl_ok /\ gen_ok
    /\ techmap' = "present"
    /\ pc' = "dispatch"
    /\ UNCHANGED <<env, others, call, n_cores, tm_at_start, builds, chunks, tasks,
                   collected, n_finished, exc, summary, ret, prev>>

\* a gate that catches the builder's exception and goes on to dispatch
AfterBuildRaiseIgnored == "dispatch"

\* line 271 has no handler: the builder's exception leaves summary
AfterBuildRaise == "raised"

\* TechMapping.run_map raises: summary raises, nothing is dispatched
BuildRaises ==
    /\ pc = "building"
    /\ techmap' = "absent"
    /\ pc' = AfterBuildRaise
    /\ UNCHANGED <<env, others, call, n_cores, tm_at_start, builds, chunks, tasks,
                   collected, n_finished, exc, summary, ret, prev>>

(***************************************************************************)
(* Aggregation.summary, lines 273-280: dispatch.                           *)
(***************************************************************************)
\* a dispatch that also takes n_cores None for the serial path
SerialDispatchAlsoNone ==
    /\ pc = "dispatch"
    /\ n_cores \in {1, NoCores}
    /\ tasks' = <<NewTask(gids.isNone, gids.list)>>
    /\ pc' = "serial"
    /\ UNCHANGED <<env, others, techmap, call, n_cores, tm_at_start, builds, chunks,
                   collected, n_finished, exc, summary, ret, prev>>

\* n_cores == 1: _serial_summary is called inline with the caller's gids
SerialDispatch ==
    /\ pc = "dispatch"
    /\ n_cores = 1
    /\ tasks' = <<NewTask(gids.isNone, gids.list)>>
    /\ pc' = "serial"
    /\ UNCHANGED <<env, others, techmap, call, n_cores, tm_at_start, builds, chunks,
                   collected, n_finished, exc, summary, ret, prev>>

\* _parallel_summary, lines 196-213: resolve gids, split them in chunks
ParallelDispatch ==
    /\ pc = "dispatch"
    /\ n_cores # 1
    /\ IF (gids.isNone /\ ~excl_ok) \/ Len(ResolvedGids) = 0
       THEN \* SupplyCurveExtent cannot open the exclusions, or array_split
            \* is asked for 0 sections: _parallel_summary raises
            /\ pc' = "raised"
            /\ UNCHANGED chunks
       ELSE /\ chunks' = ArraySplit(ResolvedGids, NumChunks(Len(ResolvedGids)))
            /\ pc' = "submit"
    /\ UNCHANGED <<env, others, techmap, call, n_cores, tm_at_start, builds, tasks,
                   collected, n_finished, exc, summary, ret, prev>>

\* a loop that starts to collect as soon as one chunk is submitted
SubmitOne ==
    /\ pc = "submit"
    /\ Len(tasks) < Len(chunks)
    /\ tasks' = Append(tasks, NewTask(FALSE, chunks[Len(tasks) + 1]))
    /\ pc' = "collect"
    /\ UNCHANGED <<env, others, techmap, call, n_cores, tm_at_start, builds, chunks,
                   collected, n_finished, exc, summary, ret, prev>>

\* lines 218-224: one executor.submit per chunk
Submit ==
    /\ pc = "submit"
    /\ Len(tasks) < Len(chunks)
    /\ tasks' = Append(tasks, NewTask(FALSE, chunks[Len(tasks) + 1]))
    /\ pc' = IF Len(tasks) + 1 = Len(chunks) THEN "collect" ELSE "submit"
    /\ UNCHANGED <<env, others, techmap, call, n_cores, tm_at_start, builds, chunks,
                   collected, n_finished, exc, summary, ret, prev>>

(***************************************************************************)
(* _serial_summary, lines 136-165: run inline or by a pool worker.         *)
(***************************************************************************)
\* handles that open lazily: a missing file is not noticed on entry
TaskOpenLazy(t) ==
    /\ t \in TaskIds
    /\ tasks[t].st = "queued"
    /\ pc = "serial" \/ Cardinality(Running) < PoolSize
    /\ \/ /\ techmap \in {"present", "writing"}
          /\ tasks' = [tasks EXCEPT ![t].st = "running",
                                    ![t].handles = Handles,
                                    ![t].gids = IF tasks[t].isNone
                                                THEN FullExtent
                                                ELSE tasks[t].gids]
       \/ /\ ~excl_ok \/ ~gen_ok \/ techmap \in {"absent", "writing"}
          /\ tasks' = [tasks EXCEPT ![t].st = "raised"]
    /\ UNCHANGED <<env, others, techmap, call, pc, n_cores, tm_at_start, builds,
                   chunks, collected, n_finished, exc, summary, ret, prev>>

\* a pool that starts every submitted task at once, whatever its size
TaskOpenUnbounded(t) ==
    /\ t \in TaskIds
    /\ tasks[t].st = "queued"
    /\ \/ /\ excl_ok /\ gen_ok
          /\ techmap \in {"present", "writing"}
          /\ tasks' = [tasks EXCEPT ![t].st = "running",
                                    ![t].handles = Handles,
                                    ![t].gids = IF tasks[t].isNone
                                                THEN FullExtent
                                                ELSE tasks[t].gids]
       \/ /\ ~excl_ok \/ ~gen_ok \/ techmap \in {"absent", "writing"}
          /\ tasks' = [tasks EXCEPT ![t].st = "raised"]
    /\ UNCHANGED <<env, others, techmap, call, pc, n_cores, tm_at_start, builds,
                   chunks, collected, n_finished, exc, summary, ret, prev>>

\* lines 138-146: enter the four with blocks; gids None becomes the extent
TaskOpen(t) ==
    /\ t \in TaskIds
    /\ tasks[t].st = "queued"
    /\ pc = "serial" \/ Cardinality(Running) < PoolSize
    /\ \/ /\ excl_ok /\ gen_ok
          /\ techmap \in {"present", "writing"}
          /\ tasks' = [tasks EXCEPT ![t].st = "running",
                                    ![t].handles = Handles,
                                    ![t].gids = IF tasks[t].isNone
                                                THEN FullExtent
                                                ELSE tasks[t].gids]
       \/ /\ ~excl_ok \/ ~gen_ok \/ techmap \in {"absent", "writing"}
          /\ tasks' = [tasks EXCEPT ![t].st = "raised"]
    /\ UNCHANGED <<env, others, techmap, call, pc, n_cores, tm_at_start, builds,
                   chunks, collected, n_finished, exc, summary, ret, prev>>

\* a loop that stops at the first empty cell instead of skipping it
TaskStepEmptyStops(t) ==
    /\ t \in TaskIds
    /\ tasks[t].st = "running"
    /\ tasks[t].i <= Len(tasks[t].gids)
    /\ LET gid == tasks[t].gids[tasks[t].i] IN
        CASE outcome[gid] = "ok" ->
                tasks' = [tasks EXCEPT
                    ![t].local = DictSet(tasks[t].local, gid,
                                         Inject(PointSummary(gid), gid)),
                    ![t].i = tasks[t].i + 1]
          [] outcome[gid] = "empty" ->
                tasks' = [tasks EXCEPT ![t].i = Len(tasks[t].gids) + 1]
          [] outcome[gid] = "fail" ->
                \* the exception leaves the with blocks, which close
                tasks' = [tasks EXCEPT ![t].st = "raised",
                                       ![t].handles = {}]
    /\ UNCHANGED <<env, others, techmap, call, pc, n_cores, tm_at_start, builds,
                   chunks, collected, n_finished, exc, summary, ret, prev>>

\* a loop without with blocks: an exception leaves the handles open
TaskStepLeaks(t) ==
    /\ t \in TaskIds
    /\ tasks[t].st = "running"
    /\ tasks[t].i <= Len(tasks[t].gids)
    /\ LET gid == tasks[t].gids[tasks[t].i] IN
        CASE outcome[gid] = "ok" ->
                tasks' = [tasks EXCEPT
                    ![t].local = DictSet(tasks[t].local, gid,
                                         Inject(PointSummary(gid), gid)),
                    ![t].i = tasks[t].i + 1]
          [] outcome[gid] = "empty" ->
                tasks' = [tasks EXCEPT ![t].i = tasks[t].i + 1]
          [] outcome[gid] = "fail" ->
                tasks' = [tasks EXCEPT ![t].st = "raised"]
    /\ UNCHANGED <<env, others, techmap, call, pc, n_cores, tm_at_start, builds,
                   chunks, collected, n_finished, exc, summary, ret, prev>>

\* a loop that stores each point in the orchestrator's summary
TaskStepShared(t) ==
    /\ t \in TaskIds
    /\ tasks[t].st = "running"
    /\ tasks[t].i <= Len(tasks[t].gids)
    /\ LET gid == tasks[t].gids[tasks[t].i] IN
        CASE outcome[gid] = "ok" ->
                /\ tasks' = [tasks EXCEPT ![t].i = tasks[t].i + 1]
                /\ summary' = DictSet(summary, gid,
                                      Inject(PointSummary(gid), gid))
          [] outcome[gid] = "empty" ->
                /\ tasks' = [tasks EXCEPT ![t].i = tasks[t].i + 1]
                /\ UNCHANGED summary
          [] outcome[gid] = "fail" ->
                /\ tasks' = [tasks EXCEPT ![t].st = "raised",
                                          ![t].handles = {}]
                /\ UNCHANGED summary
    /\ UNCHANGED <<env, others, techmap, call, pc, n_cores, tm_at_start, builds,
                   chunks, collected, n_finished, exc, ret, prev>>

\* lines 148-163: one iteration of the loop over gids
TaskStep(t) ==
    /\ t \in TaskIds
    /\ tasks[t].st = "running"
    /\ tasks[t].i <= Len(tasks[t].gids)
    /\ LET gid == tasks[t].gids[tasks[t].i] IN
        CASE outcome[gid] = "ok" ->
                tasks' = [tasks EXCEPT
                    ![t].local = DictSet(tasks[t].local, gid,
                                         Inject(PointSummary(gid), gid)),
                    ![t].i = tasks[t].i + 1]
          [] outcome[gid] = "empty" ->
                tasks' = [tasks EXCEPT ![t].i = tasks[t].i + 1]
          [] outcome[gid] = "fail" ->
                \* the exception leaves the with blocks, which close
                tasks' = [tasks EXCEPT ![t].st = "raised",
                                       ![t].handles = {}]
    /\ UNCHANGED <<env, others, techmap, call, pc, n_cores, tm_at_start, builds,
                   chunks, collected, n_finished, exc, summary, ret, prev>>

\* line 165: the loop is over, the with blocks close, summary is returned
TaskReturn(t) ==
    /\ t \in TaskIds
    /\ tasks[t].st = "running"
    /\ tasks[t].i > Len(tasks[t].gids)
    /\ tasks' = [tasks EXCEPT ![t].st = "done", ![t].handles = {}]
    /\ UNCHANGED <<env, others, techmap, call, pc, n_cores, tm_at_start, builds,
                   chunks, collected, n_finished, exc, summary, ret, prev>>

(***************************************************************************)
(* Collection of the results.                                              *)
(***************************************************************************)
\* lines 274-275: the inline _serial_summary returned
SerialReturn ==
    /\ pc = "serial"
    /\ tasks[1].st = "done"
    /\ summary' = tasks[1].local
    /\ pc' = "assemble"
    /\ UNCHANGED <<env, others, techmap, call, n_cores, tm_at_start, builds, chunks,
                   tasks, collected, n_finished, exc, ret, prev>>

\* lines 274-275: the inline _serial_summary raised
SerialRaise ==
    /\ pc = "serial"
    /\ tasks[1].st = "raised"
    /\ pc' = "raised"
    /\ UNCHANGED <<env, others, techmap, call, n_cores, tm_at_start, builds, chunks,
                   tasks, collected, n_finished, exc, summary, ret, prev>>

\* a merge that keeps only the mapping of the chunk collected last
CollectReplaces(t) ==
    /\ pc = "collect"
    /\ t \in TaskIds \ collected
    /\ Terminal(t)
    /\ n_finished' = n_finished + 1
    /\ collected' = collected \cup {t}
    /\ IF tasks[t].st = "done"
       THEN /\ summary' = tasks[t].local
            /\ exc' = exc
            /\ pc' = IF collected' = TaskIds THEN "shutdown" ELSE "collect"
       ELSE /\ exc' = TRUE
            /\ pc' = "shutdown"
            /\ UNCHANGED summary
    /\ UNCHANGED <<env, others, techmap, call, n_cores, tm_at_start, builds, chunks,
                   tasks, ret, prev>>

\* a counter that is advanced only for the chunks that returned
CollectCountsReturned(t) ==
    /\ pc = "collect"
    /\ t \in TaskIds \ collected
    /\ Terminal(t)
    /\ n_finished' = IF tasks[t].st = "done" THEN n_finished + 1
                     ELSE n_finished
    /\ collected' = collected \cup {t}
    /\ IF tasks[t].st = "done"
       THEN /\ summary' = DictUpdate(summary, tasks[t].local)
            /\ exc' = exc
            /\ pc' = IF collected' = TaskIds THEN "shutdown" ELSE "collect"
       ELSE /\ exc' = TRUE
            /\ pc' = "shutdown"
            /\ UNCHANGED summary
    /\ UNCHANGED <<env, others, techmap, call, n_cores, tm_at_start, builds, chunks,
                   tasks, ret, prev>>

\* lines 226-231: as_completed yields a finished future; future.result()
\* returns the chunk's mapping or re-raises the worker's exception
Collect(t) ==
    /\ pc = "collect"
    /\ t \in TaskIds \ collected
    /\ Terminal(t)
    /\ n_finished' = n_finished + 1
    /\ collected' = collected \cup {t}
    /\ IF tasks[t].st = "done"
       THEN /\ summary' = DictUpdate(summary, tasks[t].local)
            /\ exc' = exc
            /\ pc' = IF collected' = TaskIds THEN "shutdown" ELSE "collect"
       ELSE /\ exc' = TRUE
            /\ pc' = "shutdown"
            /\ UNCHANGED summary
    /\ UNCHANGED <<env, others, techmap, call, n_cores, tm_at_start, builds, chunks,
                   tasks, ret, prev>>

\* an exit of the with block that drops the worker's exception
ShutdownSwallows ==
    /\ pc = "shutdown"
    /\ \A t \in TaskIds : Terminal(t)
    /\ pc' = "assemble"
    /\ UNCHANGED <<env, others, techmap, call, n_cores, tm_at_start, builds, chunks,
                   tasks, collected, n_finished, exc, summary, ret, prev>>

\* an exit of the with block that does not wait for the running futures
ShutdownNoWait ==
    /\ pc = "shutdown"
    /\ pc' = IF exc THEN "raised" ELSE "assemble"
    /\ UNCHANGED <<env, others, techmap, call, n_cores, tm_at_start, builds, chunks,
                   tasks, collected, n_finished, exc, summary, ret, prev>>

\* line 215, exit of the with block: executor.shutdown(wait=True) returns
\* when every submitted future has finished
Shutdown ==
    /\ pc = "shutdown"
    /\ \A t \in TaskIds : Terminal(t)
    /\ pc' = IF exc THEN "raised" ELSE "assemble"
    /\ UNCHANGED <<env, others, techmap, call, n_cores, tm_at_start, builds, chunks,
                   tasks, collected, n_finished, exc, summary, ret, prev>>

(***************************************************************************)
(* Aggregation.summary, lines 281-285: output assembly.                    *)
(***************************************************************************)
Assemble ==
    /\ pc = "assemble"
    /\ IF option = "dataframe"
       THEN IF summary = <<>>
            THEN \* the empty frame has no 'sc_gid' column: set_index raises
                 /\ pc' = "raised"
                 /\ UNCHANGED ret
            ELSE /\ ret' = [kind |-> "dataframe",
                            body |-> SortIndex(SetIndex(summary))]
                 /\ pc' = "returned"
       ELSE /\ ret' = [kind |-> "dict", body |-> summary]
            /\ pc' = "returned"
    /\ UNCHANGED <<env, others, techmap, call, n_cores, tm_at_start, builds, chunks,
                   tasks, collected, n_finished, exc, summary, prev>>

\* the caller's first call
FirstCall(nc) == call = 0 /\ Call(nc)

\* one call
Next ==
    \/ \E nc \in NCoresArgs : FirstCall(nc)
    \/ BuildReturns
    \/ BuildRaises
    \/ SerialDispatch
    \/ ParallelDispatch
    \/ Submit
    \/ \E t \in TaskIds : TaskOpen(t)
    \/ \E t \in TaskIds : TaskStep(t)
    \/ \E t \in TaskIds : TaskReturn(t)
    \/ SerialReturn
    \/ SerialRaise
    \/ \E t \in TaskIds : Collect(t)
    \/ Shutdown
    \/ Assemble

Spec == Init /\ [][Next]_vars

\* the data of the calls that are compared: at most one requested cell is
\* empty and at most one makes the summarizer fail
InitTwoCalls ==
    /\ Init
    /\ Cardinality({g \in AllGids : outcome[g] = "empty"}) <= 1
    /\ Cardinality({g \in AllGids : outcome[g] = "fail"}) <= 1

\* calls in a row, each entered when the one before has returned or raised
NextTwoCalls ==
    \/ \E nc \in NCoresArgs : Call(nc)
    \/ BuildReturns
    \/ BuildRaises
    \/ SerialDispatch
    \/ ParallelDispatch
    \/ Submit
    \/ \E t \in TaskIds : TaskOpen(t)
    \/ \E t \in TaskIds : TaskStep(t)
    \/ \E t \in TaskIds : TaskReturn(t)
    \/ SerialReturn
    \/ SerialRaise
    \/ \E t \in TaskIds : Collect(t)
    \/ Shutdown
    \/ Assemble

SpecTwoCalls == InitTwoCalls /\ [][NextTwoCalls]_vars

TypeOK ==
    /\ pc \in {"idle", "building", "dispatch", "serial", "submit", "collect",
               "shutdown", "assemble", "returned", "raised"}
    /\ techmap \in {"absent", "writing", "present"}
    /\ call \in 0 .. MaxCalls
    /\ n_cores \in NCoresArgs


(***************************************************************************)
(* Vocabulary of the properties.                                           *)
(***************************************************************************)
Injective(s) == \A i, j \in 1 .. Len(s) : s[i] = s[j] => i = j

\* the gids the call is asked to summarize
Requested == Range(ResolvedGids)

EmptyRequested == \E g \in Requested : outcome[g] = "empty"

FailRequested == \E g \in Requested : outcome[g] = "fail"

InputMissing == ~excl_ok \/ ~gen_ok

Ended == pc \in {"returned", "raised"}

ParallelPath == call >= 1 /\ n_cores # 1

\* the keys of a returned mapping, the index of a returned table
RetKeys(r) ==
    IF r.kind = "dict" THEN DictKeys(r.body)
    ELSE {r.body[i].index : i \in 1 .. Len(r.body)}

\* the <<gid, summary>> pairs of a returned mapping or table
RetItems(r) ==
    IF r.kind = "dict" THEN {<<r.body[i].key, r.body[i].val>> : i \in 1 .. Len(r.body)}
    ELSE {<<r.body[i].index, r.body[i].row>> : i \in 1 .. Len(r.body)}

\* equality of two results as the caller sees it: dicts compare as mappings,
\* tables row by row in order
SameResult(a, b) ==
    /\ a.kind = b.kind
    /\ IF a.kind = "dict" THEN DictEq(a.body, b.body) ELSE a.body = b.body

C2_SerialParallelEquivalent ==
    (/\ call >= 2
     /\ Ended
     /\ prev.tm_at_start
     /\ (prev.n_cores = 1) # (n_cores = 1))
    => /\ prev.status = pc
       /\ RetItems(prev.ret) = RetItems(ret)

(***************************************************************************)
(* C3  Fatal propagation.  A call asked for a gid on which the summarizer  *)
(* raises something other than the empty-point signal never returns; a     *)
(* task that raised is never followed by the output assembly; and a call   *)
(* that has not returned has handed no mapping or table to the caller,     *)
(* whatever was merged before the failure.                                 *)
(***************************************************************************)
C3_FatalPropagation ==
    /\ pc = "returned" => ~FailRequested
    /\ (\E t \in TaskIds : tasks[t].st = "raised") => pc \notin {"assemble", "returned"}
    /\ pc # "returned" => ret = NoResult

C3_Witness ==
    /\ pc = "raised"
    /\ exc
    /\ FailRequested
    /\ summary # <<>>

(***************************************************************************)
(* C4  Empty-point exclusion without silent loss.  The keys of a returned  *)
(* mapping or table are exactly the requested gids on which the            *)
(* summarizer did not raise the empty-point signal.                        *)
(***************************************************************************)
C4_EmptyPointExclusion ==
    pc = "returned" =>
        RetKeys(ret) = {g \in Requested : outcome[g] # "empty"}

C4_Witness ==
    /\ pc = "returned"
    /\ ParallelPath
    /\ Len(chunks) >= 2
    /\ EmptyRequested
    /\ RetKeys(ret) # {}

(***************************************************************************)
(* C5  Dependency laziness.  A call entered with the artifact missing      *)
(* invokes the builder exactly once, a call entered with the artifact      *)
(* present never invokes it, and the call after one whose build wrote the  *)
(* artifact invokes it zero times.                                         *)
(***************************************************************************)
C5_DependencyLaziness ==
    /\ (call >= 1 /\ ~tm_at_start) => builds = 1
    /\ (call >= 1 /\ tm_at_start) => builds = 0
    /\ (call >= 2 /\ ~prev.tm_at_start /\ prev.tm_at_end) => builds = 0

C5_Witness ==
    /\ call = 2
    /\ pc = "returned"
    /\ ~prev.tm_at_start
    /\ prev.tm_at_end
    /\ prev.builds = 1
    /\ builds = 0

(***************************************************************************)
(* C6  Build-before-dispatch barrier.  While the build is in progress no   *)
(* chunk exists, no task has been submitted or started, and a task that    *)
(* holds the tech-map handle holds it on a fully written artifact.         *)
(***************************************************************************)
C6_BuildBeforeDispatch ==
    /\ (pc = "building" \/ techmap = "writing") => (tasks = <<>> /\ chunks = <<>>)
    /\ techmap = "writing" => pc = "building"
    /\ \A t \in TaskIds : "techmap" \in tasks[t].handles => techmap = "present"

C6_Witness ==
    /\ builds = 1
    /\ ParallelPath
    /\ \E t \in TaskIds : "techmap" \in tasks[t].handles

(***************************************************************************)
(* C7  An empty resolved gid set is not an error.  With readable inputs    *)
(* and the tech-map in place, a call on an empty gid list does not raise.  *)
(***************************************************************************)
C7_EmptyGidsSucceed ==
    (/\ call >= 1
     /\ Len(ResolvedGids) = 0
     /\ excl_ok /\ gen_ok
     /\ tm_at_start)
    => pc # "raised"

(***************************************************************************)
(* C8  Missing input aborts before dispatch, as stated: with the           *)
(* exclusion or the generation file missing the call never returns, no     *)
(* chunk is ever submitted to the pool and no cell is ever summarized.     *)
(***************************************************************************)
C8_AbortBeforeDispatch ==
    InputMissing =>
        /\ pc \notin {"assemble", "returned"}
        /\ ParallelPath => tasks = <<>>
        /\ \A t \in TaskIds : tasks[t].st \in {"queued", "raised"}

(***************************************************************************)
(* C8, amended.  With the exclusion or the generation file missing the     *)
(* call never returns and no cell is ever summarized: every invocation of  *)
(* _serial_summary, inline or submitted as a chunk, fails on entry with    *)
(* its loop untouched and nothing is merged.                               *)
(***************************************************************************)
C8_AbortBeforeSummarizing ==
    InputMissing =>
        /\ pc \notin {"assemble", "returned"}
        /\ \A t \in TaskIds :
              /\ tasks[t].st \in {"queued", "raised"}
              /\ tasks[t].i = 1
              /\ tasks[t].local = <<>>
        /\ summary = <<>>
        /\ ret = NoResult

C8_Witness ==
    /\ InputMissing
    /\ pc = "raised"
    /\ Len(tasks) >= 2
    /\ \A t \in TaskIds : tasks[t].st = "raised"

(***************************************************************************)
(* C9  Output table assembly.  A returned table has exactly one row per    *)
(* key of the merged mapping, carrying that key's summary, indexed by      *)
(* sc_gid, with the index strictly ascending (hence pairwise distinct).    *)
(***************************************************************************)
C9_TableAssembly ==
    (pc = "returned" /\ ret.kind = "dataframe") =>
        /\ Len(ret.body) = Cardinality(DictKeys(summary))
        /\ RetKeys(ret) = DictKeys(summary)
        /\ \A i \in 1 .. Len(ret.body) :
              ret.body[i].row = summary[DictGet(summary, ret.body[i].index)].val
        /\ \A i, j \in 1 .. Len(ret.body) :
              i < j => ret.body[i].index < ret.body[j].index

C9_Witness ==
    /\ pc = "returned"
    /\ ret.kind = "dataframe"
    /\ \E i \in 1 .. (Len(summary) - 1) : summary[i].key > summary[i + 1].key

(***************************************************************************)
(* C10  Idempotence.  Two calls with the same arguments on the same data   *)
(* and a tech-map already in place end the same way and return the same    *)
(* result, whatever the order in which the workers ran and the chunks      *)
(* completed in each call.                                                 *)
(***************************************************************************)
C10_Idempotent ==
    (/\ call >= 2
     /\ Ended
     /\ prev.tm_at_start
     /\ prev.n_cores = n_cores)
    => /\ prev.status = pc
       /\ SameResult(prev.ret, ret)

C10_Witness ==
    /\ call = 2
    /\ pc = "returned"
    /\ prev.tm_at_start
    /\ prev.n_cores = n_cores
    /\ ParallelPath
    /\ ret.kind = "dict"
    /\ ret.body # prev.ret.body

(***************************************************************************)
(* C11  Dispatch policy.  A call takes the serial path, one inline task    *)
(* and neither chunks nor a pool, exactly when n_cores is 1; with any      *)
(* other value, None included, it takes the parallel path, and with None   *)
(* the pool runs no more tasks at once than the machine has cores.         *)
(***************************************************************************)
C11_DispatchPolicy ==
    /\ pc = "serial" => n_cores = 1
    /\ pc \in {"submit", "collect", "shutdown"} => n_cores # 1
    /\ (call >= 1 /\ n_cores = 1) =>
          /\ chunks = <<>>
          /\ Len(tasks) <= 1
          /\ collected = {}
          /\ n_finished = 0
    /\ (ParallelPath /\ tasks # <<>>) => chunks # <<>>
    /\ (ParallelPath /\ n_cores = NoCores) => Cardinality(Running) <= CpuCount

C11_Witness ==
    /\ ParallelPath
    /\ n_cores = NoCores
    /\ Cardinality(Running) = CpuCount
    /\ \E t \in TaskIds : tasks[t].st = "queued"

\* the number of gids in the first j chunks
RECURSIVE ChunkOffset(_)
ChunkOffset(j) == IF j = 0 THEN 0 ELSE ChunkOffset(j - 1) + Len(chunks[j])

(***************************************************************************)
(* C12  Chunk count and size bound.  For a gid list of length n >= 1 the   *)
(* parallel path makes exactly ceil(n / target) chunks; every chunk is     *)
(* non-empty, holds at most the target number of gids, and is the slice of *)
(* the input that follows the chunks before it.                            *)
(***************************************************************************)
C12_ChunkCountAndSize ==
    chunks # <<>> =>
        LET n == Len(ResolvedGids)
            k == Len(chunks)
        IN  /\ n >= 1
            /\ (k - 1) * ChunkTarget < n
            /\ n <= k * ChunkTarget
            /\ \A j \in 1 .. k :
                  /\ Len(chunks[j]) >= 1
                  /\ Len(chunks[j]) <= ChunkTarget
                  /\ chunks[j] = SubSeq(ResolvedGids, ChunkOffset(j - 1) + 1,
                                        ChunkOffset(j))

C12_Witness ==
    /\ pc = "submit"
    /\ Len(chunks) = 2
    /\ Len(ResolvedGids) = ChunkTarget + 1

C14_HandlesReleased ==
    \A t \in TaskIds :
        /\ Terminal(t) => tasks[t].handles = {}
        /\ tasks[t].st = "queued" => tasks[t].handles = {}
        /\ tasks[t].st = "running" => tasks[t].handles = Handles

C14_Witness ==
    /\ n_cores = 1
    /\ pc = "raised"
    /\ Len(tasks) = 1
    /\ tasks[1].st = "raised"
    /\ tasks[1].i > 1
    /\ tasks[1].local # <<>>
    /\ tasks[1].handles = {}

\* the tech-map builder was run by the current call and raised
BuildFailed == builds = 1 /\ techmap = "absent"

(***************************************************************************)
(* C15  Dependency build failure is fatal and early.  When the tech-map    *)
(* builder raises, the call has raised: no task was created, so no input   *)
(* handle was opened, no chunk was made or submitted, no cell was          *)
(* summarized and nothing is returned.                                     *)
(***************************************************************************)
C15_BuildFailureFatal ==
    BuildFailed =>
        /\ pc = "raised"
        /\ tasks = <<>>
        /\ chunks = <<>>
        /\ summary = <<>>
        /\ n_finished = 0
        /\ ret = NoResult

C15_Witness ==
    /\ BuildFailed
    /\ pc = "raised"
    /\ excl_ok
    /\ gen_ok
    /\ n_cores # 1
    /\ Len(ResolvedGids) > ChunkTarget

\* the <<gid, summary>> pairs of a mapping
DictItems(d) == {<<d[i].key, d[i].val>> : i \in 1 .. Len(d)}

\* the chunk results that are still to be merged
ToMerge == {t \in TaskIds \ collected : tasks[t].st = "done"}

\* the chunk results that have been merged
Merged == {t \in collected : tasks[t].st = "done"}

(***************************************************************************)
(* C16  Merge never overwrites (the statement as written).  While results  *)
(* are collected, every chunk result that is still to be merged has no key *)
(* in common with the mapping merged so far.                               *)
(***************************************************************************)
C16_MergeDisjoint ==
    (ParallelPath /\ pc = "collect") =>
        \A t \in ToMerge :
            DictKeys(tasks[t].local) \cap DictKeys(summary) = {}

(***************************************************************************)
(* C16  amended.  When no gid is requested twice, every chunk result still *)
(* to be merged has no key in common with the mapping merged so far; and   *)
(* for every gid list the merged mapping is the union of the chunk results *)
(* merged so far, a repeated gid being replaced by an equal entry.         *)
(***************************************************************************)
C16_MergeDisjointNoRepeat ==
    (ParallelPath /\ tasks # <<>>) =>
        /\ (Injective(ResolvedGids) /\ pc = "collect") =>
              \A t \in ToMerge :
                  DictKeys(tasks[t].local) \cap DictKeys(summary) = {}
        /\ DictItems(summary) = UNION {DictItems(tasks[t].local) : t \in Merged}
        /\ Cardinality(DictKeys(summary)) = Len(summary)

C16_Witness ==
    /\ ParallelPath
    /\ pc = "collect"
    /\ Injective(ResolvedGids)
    /\ summary # <<>>
    /\ \E t \in ToMerge : tasks[t].local # <<>>

(***************************************************************************)
(* C17  Bounded pool.  In the parallel path task t is the serial-path      *)
(* invocation on chunk t, there is never more than one task per chunk and  *)
(* exactly one per chunk once submission is over, and at every moment the  *)
(* number of running tasks is at most the pool size: n_cores, or the       *)
(* number of cores of the machine when n_cores is None.                    *)
(***************************************************************************)
C17_BoundedPool ==
    ParallelPath =>
        /\ Len(tasks) <= Len(chunks)
        /\ \A t \in TaskIds : ~tasks[t].isNone /\ tasks[t].gids = chunks[t]
        /\ (pc \in {"collect", "shutdown", "assemble", "returned"} \/ exc) =>
              Len(tasks) = Len(chunks)
        /\ Cardinality(Running) <= (IF n_cores = NoCores THEN CpuCount
                                    ELSE n_cores)

C17_Witness ==
    /\ ParallelPath
    /\ pc = "collect"
    /\ Len(tasks) = Len(chunks)
    /\ Len(tasks) >= 2
    /\ Cardinality(Running) = (IF n_cores = NoCores THEN CpuCount ELSE n_cores)
    /\ \E t \in TaskIds : tasks[t].st = "queued"

(***************************************************************************)
(* C18  No cancellation.  When a parallel call has left the pool, to       *)
(* assemble, return or raise, every submitted chunk is in a terminal       *)
(* state (returned or raised), also when the failure of one chunk was      *)
(* observed while others were queued or running.                           *)
(***************************************************************************)
C18_NoCancellation ==
    (ParallelPath /\ pc \in {"assemble", "returned", "raised"}) =>
        \A t \in TaskIds : Terminal(t)

C18_Witness ==
    /\ ParallelPath
    /\ pc = "raised"
    /\ exc
    /\ \E t \in TaskIds \ collected :
          tasks[t].st = "done" /\ tasks[t].local # <<>>

\* a step of a worker: the record of a task changes, no task is added
WorkerStep == tasks' # tasks /\ Len(tasks') = Len(tasks)

(***************************************************************************)
(* C19  Worker isolation.  In the parallel path a step of a worker changes *)
(* the record of one task only, its own handles and its own mapping, and   *)
(* nothing of the orchestrator or of another worker; the orchestrator      *)
(* changes its mapping only by merging the mapping of one finished task    *)
(* it had not collected yet.                                               *)
(***************************************************************************)
C19_WorkerIsolation ==
    [][ParallelPath =>
          /\ WorkerStep =>
                /\ UNCHANGED <<summary, collected, n_finished, exc, ret,
                               chunks, pc, techmap>>
                /\ \E t \in TaskIds :
                      \A u \in TaskIds \ {t} : tasks'[u] = tasks[u]
          /\ (summary' # summary /\ call' = call) =>
                /\ tasks' = tasks
                /\ \E t \in TaskIds \ collected :
                      /\ tasks[t].st = "done"
                      /\ collected' = collected \cup {t}
                      /\ summary' = DictUpdate(summary, tasks[t].local)]_vars

C19_Witness ==
    /\ ParallelPath
    /\ \E t, u \in TaskIds :
          /\ t # u
          /\ tasks[t].st = "running"
          /\ tasks[u].st = "running"
          /\ tasks[t].handles = Handles
          /\ tasks[u].handles = Handles
          /\ tasks[t].local # <<>>
          /\ tasks[u].local # <<>>

(***************************************************************************)
(* C20  Engine-injected keys.  Every entry of a returned mapping or table  *)
(* is the point summary of its gid with sc_gid equal to the gid and        *)
(* sc_row_ind, sc_col_ind the row and column the grid extent gives for the *)
(* gid; the point summary itself has none of the three attributes, and     *)
(* they are added only for gids that did not signal empty.                 *)
(***************************************************************************)
C20_InjectedKeys ==
    /\ \A g \in AllGids :
          DOMAIN PointSummary(g) \cap {"sc_gid", "sc_row_ind", "sc_col_ind"} = {}
    /\ pc = "returned" =>
          \A it \in RetItems(ret) :
              LET g == it[1]
                  entry == it[2]
              IN  /\ outcome[g] = "ok"
                  /\ entry.sc_gid = g
                  /\ entry.sc_row_ind = ScRowInd(g)
                  /\ entry.sc_col_ind = ScColInd(g)
                  /\ \A f \in DOMAIN PointSummary(g) :
                        entry[f] = PointSummary(g)[f]
    /\ \A t \in TaskIds :
          \A i \in 1 .. Len(tasks[t].local) :
              /\ tasks[t].local[i].val.sc_gid = tasks[t].local[i].key
              /\ outcome[tasks[t].local[i].key] = "ok"

C20_Witness ==
    /\ pc = "returned"
    /\ ret.kind = "dict"
    /\ EmptyRequested
    /\ \E it \in RetItems(ret) : it[2].sc_row_ind # it[2].sc_col_ind

(***************************************************************************)
(* C21  Full-extent default.  With gids None the gids worked on are        *)
(* 0 .. N-1 in this order, N the number of cells of the grid extent, on    *)
(* the serial path (the inline invocation) and on the parallel path (the   *)
(* chunks) alike, and a returned result accounts for every one of them.    *)
(***************************************************************************)
C21_FullExtentDefault ==
    (call >= 1 /\ gids.isNone) =>
        /\ n_cores = 1 =>
              \A t \in TaskIds :
                  tasks[t].st \in {"running", "done"} =>
                      tasks[t].gids = [i \in 1 .. ExtentLen |-> i - 1]
        /\ (n_cores # 1 /\ chunks # <<>>) =>
              Concat(chunks) = [i \in 1 .. ExtentLen |-> i - 1]
        /\ pc = "returned" =>
              RetKeys(ret) \cup {g \in AllGids : outcome[g] = "empty"}
                  = 0 .. (ExtentLen - 1)

C21_Witness ==
    /\ gids.isNone
    /\ ParallelPath
    /\ pc = "returned"
    /\ RetKeys(ret) = 0 .. (ExtentLen - 1)

(***************************************************************************)
(* C23  Completion-order independence.  Chunk results are merged in the    *)
(* order the chunks complete, any order being possible; when all chunks    *)
(* have succeeded the merged mapping is the one fixed by the inputs: the   *)
(* point summary, with its injected keys, of every requested gid that did  *)
(* not signal empty.                                                       *)
(***************************************************************************)
C23_CompletionOrderIndependent ==
    (ParallelPath /\ pc \in {"assemble", "returned"}) =>
        /\ collected = TaskIds
        /\ DictItems(summary) =
              {<<g, Inject(PointSummary(g), g)>> :
                  g \in {h \in Requested : outcome[h] = "ok"}}

\* the second chunk was merged before the first
C23_Witness ==
    /\ ParallelPath
    /\ pc = "returned"
    /\ Len(chunks) >= 2
    /\ summary # <<>>
    /\ summary[1].key \in Range(chunks[2])
    /\ summary[Len(summary)].key \in Range(chunks[1])
    /\ summary[1].key \notin Range(chunks[1])

(***************************************************************************)
(* C24  Progress counter.  In the parallel path the counter is 0 until a   *)
(* completion is processed, so the first value logged is 1; it advances    *)
(* by exactly one in the step that processes one finished chunk not        *)
(* processed before, while other chunks may still run; it is the number of *)
(* completions processed, never above the chunk count, and equal to it     *)
(* when the call succeeds.                                                 *)
(***************************************************************************)
C24_ProgressCounter ==
    /\ [](ParallelPath =>
            /\ n_finished = Cardinality(collected)
            /\ n_finished <= Len(chunks)
            /\ pc = "submit" => n_finished = 0
            /\ pc \in {"assemble", "returned"} => n_finished = Len(chunks))
    /\ [][(call' = call /\ n_finished' # n_finished) =>
            /\ n_finished' = n_finished + 1
            /\ pc = "collect"
            /\ \E t \in TaskIds \ collected :
                  Terminal(t) /\ collected' = collected \cup {t}]_vars

C24_Witness ==
    /\ ParallelPath
    /\ n_finished = 1
    /\ pc = "collect"
    /\ \E t \in TaskIds : tasks[t].st \in {"queued", "running"}

(***************************************************************************)
(* C27  Submit all, then collect.  In the parallel path task t is the      *)
(* submission of chunk t and no chunk has two; nothing is collected or     *)
(* merged while chunks remain to be submitted; and when the call succeeds  *)
(* every chunk has been collected, once, so that the number of merges is   *)
(* the number of chunks.                                                   *)
(***************************************************************************)
C27_SubmitAllThenCollect ==
    ParallelPath =>
        /\ Len(tasks) <= Len(chunks)
        /\ \A t \in TaskIds : tasks[t].gids = chunks[t]
        /\ Len(tasks) < Len(chunks) =>
              (collected = {} /\ n_finished = 0 /\ summary = <<>>)
        /\ collected \subseteq TaskIds
        /\ pc \in {"assemble", "returned"} =>
              /\ collected = 1 .. Len(chunks)
              /\ Cardinality(Merged) = Len(chunks)
              /\ n_finished = Len(chunks)

C27_Witness ==
    /\ ParallelPath
    /\ pc = "collect"
    /\ Len(chunks) >= 2
    /\ Len(tasks) = Len(chunks)
    /\ Cardinality(collected) = 1
    /\ summary # <<>>

(***************************************************************************)
(* The other objects start from an Aggregation.summary that is never       *)
(* called.                                                                 *)
(***************************************************************************)
AggIdle ==
    /\ excl_ok = TRUE
    /\ gen_ok = TRUE
    /\ gids = [isNone |-> TRUE, list |-> <<>>]
    /\ outcome = [g \in AllGids |-> "ok"]
    /\ option = "dict"
    /\ techmap = "present"
    /\ call = 0
    /\ pc = "idle"
    /\ n_cores = NoCores
    /\ tm_at_start = FALSE
    /\ builds = 0
    /\ chunks = <<>>
    /\ tasks = <<>>
    /\ collected = {}
    /\ n_finished = 0
    /\ exc = FALSE
    /\ summary = <<>>
    /\ ret = NoResult
    /\ prev = NoPrev

(***************************************************************************)
(* SupplyCurvePointSummary.summary, lines 84-103, called with args.        *)
(***************************************************************************)
\* longest list of requested attribute names
MaxArgs == 3

\* list(ARGS.keys()), lines 86-93
ArgsKeys == <<"resource_gids", "gen_gids", "latitude", "longitude">>

\* names a caller may request: the keys of ARGS and two that are not
ArgNames == Range(ArgsKeys) \cup {"elevation", "sc_gid"}

\* the args argument: None, or a list of names
ArgsArgs ==
    {[isNone |-> TRUE, list |-> <<>>]}
    \cup {[isNone |-> FALSE, list |-> l] :
             l \in UNION {[1 .. n -> ArgNames] : n \in 0 .. MaxArgs}}

InitPoint ==
    /\ AggIdle
    /\ \E g \in AllGids, a \in ArgsArgs :
          point = [st |-> "called", gid |-> g, isNone |-> a.isNone,
                   args |-> a.list, i |-> 1, summary |-> <<>>,
                   warned |-> <<>>]
    /\ sim = NoObject
    /\ pm = NoObject
    /\ job = NoObject

\* lines 84-95: the point is entered, args None becomes the keys of ARGS
PointEnter ==
    /\ point.st = "called"
    /\ point' = [point EXCEPT !.st = "loop",
                              !.args = IF point.isNone THEN ArgsKeys
                                       ELSE point.args]
    /\ UNCHANGED <<aggvars, sim, pm, job>>

\* a loop that looks every requested name up in ARGS
PointArgLooksUp ==
    /\ point.st = "loop"
    /\ point.i <= Len(point.args)
    /\ LET arg == point.args[point.i] IN
        IF arg \in Range(ArgsKeys)
        THEN point' = [point EXCEPT
                 !.summary = DictSet(point.summary, arg,
                                     PointSummary(point.gid)[arg]),
                 !.i = point.i + 1]
        ELSE point' = [point EXCEPT !.st = "raised"]
    /\ UNCHANGED <<aggvars, sim, pm, job>>

\* lines 96-101: one name of args: its value is stored, or a warning is given
PointArg ==
    /\ point.st = "loop"
    /\ point.i <= Len(point.args)
    /\ LET arg == point.args[point.i] IN
        IF arg \in Range(ArgsKeys)
        THEN point' = [point EXCEPT
                 !.summary = DictSet(point.summary, arg,
                                     PointSummary(point.gid)[arg]),
                 !.i = point.i + 1]
        ELSE point' = [point EXCEPT
                 !.warned = Append(point.warned, arg),
                 !.i = point.i + 1]
    /\ UNCHANGED <<aggvars, sim, pm, job>>

\* line 103
PointReturn ==
    /\ point.st = "loop"
    /\ point.i > Len(point.args)
    /\ point' = [point EXCEPT !.st = "returned"]
    /\ UNCHANGED <<aggvars, sim, pm, job>>

NextPoint ==
    \/ PointEnter
    \/ PointArg
    \/ PointReturn

SpecPoint == InitPoint /\ [][NextPoint]_vars

\* the names of a list that ARGS does not have, in the order of the list
RECURSIVE Unrecognized(_)
Unrecognized(l) ==
    IF l = <<>> THEN <<>>
    ELSE IF Head(l) \in {"resource_gids", "gen_gids", "latitude", "longitude"}
         THEN Unrecognized(Tail(l))
         ELSE <<Head(l)>> \o Unrecognized(Tail(l))

(***************************************************************************)
(* C22  Unrecognized attributes are non-fatal.  A call of the summarizer   *)
(* with a list of names never raises on a name; what it returns has as     *)
(* keys exactly the requested names among resource_gids, gen_gids,         *)
(* latitude and longitude, each with the point's value, and every other    *)
(* requested name has been warned about and left out.                      *)
(***************************************************************************)
C22_UnrecognizedNonFatal ==
    point.st # "none" =>
        /\ point.st # "raised"
        /\ (point.st = "returned" /\ ~point.isNone) =>
              /\ DictKeys(point.summary) =
                    Range(point.args)
                    \cap {"resource_gids", "gen_gids", "latitude", "longitude"}
              /\ \A k \in 1 .. Len(point.summary) :
                    point.summary[k].val =
                        PointSummary(point.gid)[point.summary[k].key]
              /\ point.warned = Unrecognized(point.args)

C22_Witness ==
    /\ point.st = "returned"
    /\ ~point.isNone
    /\ Len(point.warned) >= 2
    /\ point.summary # <<>>

(***************************************************************************)
(* SAM.py: execute of a generation object (PV, CSP, LandBasedWind) and of  *)
(* the economic model it hands its data to.                                *)
(***************************************************************************)
\* most diagnostic lines the engine keeps for a module
MaxLog == 2

SamClasses == {"PV", "CSP", "LandBasedWind"}

\* cls.MODULE, lines 739, 782, 881
GenModule(cls) ==
    CASE cls = "PV" -> "pvwattsv5"
      [] cls = "CSP" -> "tcsmolten_salt"
      [] cls = "LandBasedWind" -> "windpower"

\* a ladder in which every class looks for lcoe_fcr
EconOutputAllLcoe(cls) == "lcoe_fcr"

\* the output whose request makes execute run the economic model,
\* lines 768, 798, 897
EconOutput(cls) ==
    CASE cls = "PV" -> "lcoe_fcr"
      [] cls = "CSP" -> "ppa_price"
      [] cls = "LandBasedWind" -> "lcoe_fcr"

\* LCOE.MODULE and SingleOwner.MODULE, lines 771-773, 801-803, 900-902
EconModule(cls) ==
    CASE cls = "PV" -> "lcoefcr"
      [] cls = "CSP" -> "singleowner"
      [] cls = "LandBasedWind" -> "lcoefcr"

\* output requests of the model
OutputNames == {"cf_mean", "lcoe_fcr", "ppa_price"}

\* the economic model runs after the generation module
EconRequested == EconOutput(sim.cls) \in sim.request

\* a generation stage that always collects and frees
GenClosesAlways == TRUE

\* the close argument SAM.execute gets for the generation module,
\* lines 770 and 776
GenCloses == IF EconRequested THEN FALSE ELSE sim.close

InitSam ==
    /\ AggIdle
    /\ point = NoObject
    /\ pm = NoObject
    /\ job = NoObject
    /\ \E c \in SamClasses, r \in SUBSET OutputNames, cl \in BOOLEAN,
          g \in BOOLEAN, e \in BOOLEAN, n \in 0 .. MaxLog :
          sim = [st |-> "new", cls |-> c, request |-> r, close |-> cl,
                 gen_ok |-> g, econ_ok |-> e,
                 log |-> [k \in 1 .. n |-> k],
                 data |-> "live", frees |-> 0, uaf |-> FALSE,
                 ran |-> <<>>, collects |-> <<>>,
                 outputs |-> [by |-> "none", keys |-> {}],
                 err |-> [msg |-> "", log |-> <<>>]]

\* a use of the data container: after data_free it is a dangling use
Touch(s) == [s EXCEPT !.uaf = s.uaf \/ s.data = "freed"]

\* collect_outputs and data_free, lines 581-583
Close(s, stage) ==
    [Touch(s) EXCEPT !.collects = Append(s.collects, stage),
                     !.outputs = [by |-> stage, keys |-> s.request],
                     !.data = "freed",
                     !.frees = s.frees + 1]

\* PV.execute, CSP.execute, LandBasedWind.execute: set_parameters
SimExecute ==
    /\ sim.st = "new"
    /\ sim' = [Touch(sim) EXCEPT !.st = "gen"]
    /\ UNCHANGED <<aggvars, point, pm, job>>

\* lines 568-571: the error raised when module_exec gives 0; the loop over
\* module_log, lines 572-578, comes after the raise and is never run
SimError == [msg |-> "SAM Simulation Error", log |-> <<>>]

\* SAM.execute, lines 563-579, on the generation module
SimGenExec ==
    /\ sim.st = "gen"
    /\ IF sim.gen_ok
       THEN sim' = [Touch(sim) EXCEPT
                       !.ran = Append(sim.ran, GenModule(sim.cls)),
                       !.st = "gen_ran"]
       ELSE sim' = [Touch(sim) EXCEPT !.st = "raised", !.err = SimError]
    /\ UNCHANGED <<aggvars, point, pm, job>>

\* SAM.execute, lines 581-583, and the branch of lines 768-776
SimGenClose ==
    /\ sim.st = "gen_ran"
    /\ sim' = [(IF GenCloses THEN Close(sim, "gen") ELSE sim) EXCEPT
                  !.st = IF EconRequested THEN "econ" ELSE "done"]
    /\ UNCHANGED <<aggvars, point, pm, job>>

\* Economic.execute, lines 963-967: set_parameters, then SAM.execute
SimEconExec ==
    /\ sim.st = "econ"
    /\ IF sim.econ_ok
       THEN sim' = [Touch(sim) EXCEPT
                       !.ran = Append(sim.ran, EconModule(sim.cls)),
                       !.st = "econ_ran"]
       ELSE sim' = [Touch(sim) EXCEPT !.st = "raised", !.err = SimError]
    /\ UNCHANGED <<aggvars, point, pm, job>>

\* the economic model closes (close is its default True) and its outputs
\* become the outputs of the generation object, lines 773-774
SimEconClose ==
    /\ sim.st = "econ_ran"
    /\ sim' = [Close(sim, "econ") EXCEPT !.st = "done"]
    /\ UNCHANGED <<aggvars, point, pm, job>>

NextSam ==
    \/ SimExecute
    \/ SimGenExec
    \/ SimGenClose
    \/ SimEconExec
    \/ SimEconClose

SpecSam == InitSam /\ [][NextSam]_vars

(***************************************************************************)
(* C25  Simulation-failure diagnostics.  When the engine reports failure   *)
(* for a module, the error raised to the caller carries every diagnostic   *)
(* line the engine has for that module.                                    *)
(***************************************************************************)
C25_FailureDiagnostics ==
    (sim.st = "raised") => sim.err.log = sim.log

(***************************************************************************)
(* C26  Two-stage pipeline.  The economic module, lcoefcr for PV and       *)
(* LandBasedWind on a request of lcoe_fcr, singleowner for CSP on a        *)
(* request of ppa_price, runs if and only if that output is requested; it  *)
(* runs second, after the generation module succeeded, on the data the     *)
(* generation stage left live; and the outputs are then the ones the       *)
(* economic stage collected.                                               *)
(***************************************************************************)
C26_TwoStagePipeline ==
    sim.st # "none" =>
        LET econ_out == IF sim.cls = "CSP" THEN "ppa_price" ELSE "lcoe_fcr"
            econ_mod == IF sim.cls = "CSP" THEN "singleowner" ELSE "lcoefcr"
            econ_ran == econ_mod \in Range(sim.ran)
        IN  /\ econ_ran =>
                  /\ econ_out \in sim.request
                  /\ sim.gen_ok
                  /\ sim.ran = <<GenModule(sim.cls), econ_mod>>
            /\ sim.st = "done" => (econ_ran <=> econ_out \in sim.request)
            /\ sim.st \in {"econ", "econ_ran"} =>
                  /\ econ_out \in sim.request
                  /\ sim.ran[1] = GenModule(sim.cls)
                  /\ sim.data = "live"
                  /\ sim.collects = <<>>
            /\ (sim.st = "done" /\ econ_out \in sim.request) =>
                  /\ sim.outputs.by = "econ"
                  /\ sim.outputs.keys = sim.request

C26_Witness ==
    /\ sim.st = "done"
    /\ sim.cls = "CSP"
    /\ "ppa_price" \in sim.request
    /\ "lcoe_fcr" \notin sim.request
    /\ sim.outputs.by = "econ"

(***************************************************************************)
(* C28  Simulation data lifecycle (the statement as written).  When an     *)
(* execute has succeeded, the data container has been freed exactly once,  *)
(* after the last stage collected the outputs, and was never used after    *)
(* it was freed.                                                           *)
(***************************************************************************)
C28_FreedExactlyOnce ==
    (sim.st = "done") =>
        /\ sim.frees = 1
        /\ sim.data = "freed"
        /\ Len(sim.collects) = 1
        /\ ~sim.uaf

(***************************************************************************)
(* C28  amended.  The container is never used after it was freed and is    *)
(* freed at most once, right after a collection of the outputs.  A         *)
(* successful execute has freed it once, after the economic stage          *)
(* collected when the economic output is requested, after the generation   *)
(* stage collected when it is not and close is True; with close False and  *)
(* no economic output requested it has collected nothing and freed         *)
(* nothing.                                                                *)
(***************************************************************************)
C28_DataLifecycle ==
    sim.st # "none" =>
        LET econ_out == IF sim.cls = "CSP" THEN "ppa_price" ELSE "lcoe_fcr"
        IN  /\ ~sim.uaf
            /\ sim.frees <= 1
            /\ sim.frees = Len(sim.collects)
            /\ (sim.data = "freed") <=> (sim.frees = 1)
            /\ sim.st \in {"new", "gen", "gen_ran", "econ", "econ_ran"} =>
                  sim.data = "live"
            /\ sim.st = "done" =>
                  IF econ_out \in sim.request
                  THEN sim.collects = <<"econ">>
                  ELSE IF sim.close
                       THEN sim.collects = <<"gen">>
                       ELSE /\ sim.collects = <<>>
                            /\ sim.outputs.by = "none"

C28_Witness ==
    /\ sim.st = "done"
    /\ ~sim.close
    /\ sim.frees = 1
    /\ sim.collects = <<"econ">>
    /\ Len(sim.ran) = 2

(***************************************************************************)
(* SAM.py: ParametersManager, lines 59-220.                                *)
(***************************************************************************)
\* most calls of require_resource_file on one manager
MaxRequire == 2

\* input names of the model: two of a module, and the two resource files
ParamNames ==
    {"system_capacity", "azimuth", "solar_resource_file",
     "wind_resource_filename"}

\* get_requirements, lines 123-152: the requirement list of a module
ModuleReqs == {<<>>, <<"system_capacity">>, <<"system_capacity", "azimuth">>}

\* what parameters holds for a name: nothing, the caller's value (of a
\* required type or not), or the module default
ParamValues == {"absent", "caller", "badtype", "default"}

NoParameters == [n \in ParamNames |-> "absent"]

\* a set_defaults that stores the default of every required name
RECURSIVE SetDefaultsAll(_, _, _)
SetDefaultsAll(p, reqs, defs) ==
    IF reqs = <<>> THEN [p |-> p, raised |-> FALSE]
    ELSE IF Head(reqs) \in defs
         THEN SetDefaultsAll([p EXCEPT ![Head(reqs)] = "default"],
                             Tail(reqs), defs)
         ELSE [p |-> p, raised |-> TRUE]

\* set_defaults, lines 179-187: defaults[new] for every required name that
\* parameters lacks; a name without a default is a KeyError
RECURSIVE SetDefaults(_, _, _)
SetDefaults(p, reqs, defs) ==
    IF reqs = <<>> THEN [p |-> p, raised |-> FALSE]
    ELSE IF p[Head(reqs)] # "absent"
         THEN SetDefaults(p, Tail(reqs), defs)
         ELSE IF Head(reqs) \in defs
              THEN SetDefaults([p EXCEPT ![Head(reqs)] = "default"],
                               Tail(reqs), defs)
              ELSE [p |-> p, raised |-> TRUE]

\* verify_inputs, lines 200-220: warnings, and set_defaults when a required
\* name is missing
VerifyInputs(p, reqs, defs) ==
    IF \E i \in 1 .. Len(reqs) : p[reqs[i]] = "absent"
    THEN SetDefaults(p, reqs, defs)
    ELSE [p |-> p, raised |-> FALSE]

InitPm ==
    /\ AggIdle
    /\ point = NoObject
    /\ sim = NoObject
    /\ job = NoObject
    /\ \E d \in BOOLEAN, c \in [ParamNames -> ParamValues \ {"default"}],
          r \in ModuleReqs, defs \in SUBSET ParamNames :
          /\ ~d => c = NoParameters
          /\ pm = [st |-> "new", isDict |-> d, caller |-> c,
                   module_reqs |-> r, defaults |-> defs,
                   parameters |-> NoParameters, requirements |-> <<>>,
                   requires |-> 0]

\* __init__, lines 62-79: the parameters setter (lines 103-116), the
\* requirements, verify_inputs
PmInit ==
    /\ pm.st = "new"
    /\ LET given == IF pm.isDict THEN pm.caller ELSE NoParameters
           v == VerifyInputs(given, pm.module_reqs, pm.defaults)
       IN  pm' = [pm EXCEPT !.parameters = v.p,
                            !.requirements = pm.module_reqs,
                            !.st = IF v.raised THEN "raised" ELSE "ready"]
    /\ UNCHANGED <<aggvars, point, sim, job>>

\* require_resource_file, lines 189-198
PmRequireResourceFile(res_type) ==
    /\ pm.st = "ready"
    /\ pm.requires < MaxRequire
    /\ LET reqs ==
               CASE res_type = "solar" ->
                        Append(pm.requirements, "solar_resource_file")
                 [] res_type = "wind" ->
                        Append(pm.requirements, "wind_resource_filename")
                 [] OTHER -> pm.requirements
           v == VerifyInputs(pm.parameters, reqs, pm.defaults)
       IN  pm' = [pm EXCEPT !.parameters = v.p,
                            !.requirements = reqs,
                            !.requires = pm.requires + 1,
                            !.st = IF v.raised THEN "raised" ELSE "ready"]
    /\ UNCHANGED <<aggvars, point, sim, job>>

NextPm ==
    \/ PmInit
    \/ \E res_type \in {"solar", "wind", "other"} :
          PmRequireResourceFile(res_type)

SpecPm == InitPm /\ [][NextPm]_vars

(***************************************************************************)
(* C29  Required inputs are always present.  When the constructor has      *)
(* returned, and again when require_resource_file has returned, every      *)
(* required name has a value in parameters; a name the caller did not      *)
(* give has the module default, and a value the caller gave, of the        *)
(* required type or not, is still the caller's.                            *)
(***************************************************************************)
C29_RequiredInputsPresent ==
    pm.st = "ready" =>
        /\ \A i \in 1 .. Len(pm.requirements) :
              pm.parameters[pm.requirements[i]] # "absent"
        /\ \A n \in ParamNames :
              LET given == IF pm.isDict THEN pm.caller[n] ELSE "absent"
              IN  /\ given # "absent" => pm.parameters[n] = given
                  /\ (given = "absent" /\ n \in Range(pm.requirements)) =>
                        pm.parameters[n] = "default"

C29_Witness ==
    /\ pm.st = "ready"
    /\ pm.requires >= 1
    /\ "solar_resource_file" \in Range(pm.requirements)
    /\ pm.parameters["solar_resource_file"] = "default"
    /\ pm.parameters["azimuth"] = "badtype"
    /\ pm.parameters["system_capacity"] = "caller"

(***************************************************************************)
(* cli_supply_curve.py and cli_multi_year.py: from_config and the eagle    *)
(* submission command, run again and again on one named job.               *)
(***************************************************************************)
\* most commands issued on the job
MaxRuns == 3

\* the module under which the job is recorded
Clis == {"supply-curve", "multi-year"}

\* values of the recorded job_status; "none" is a job without a record
JobStatuses == {"none", "submitted", "running", "failed", "successful"}

InitJob ==
    /\ AggIdle
    /\ point = NoObject
    /\ sim = NoObject
    /\ pm = NoObject
    /\ \E c \in Clis, s \in JobStatuses :
          job = [st |-> "idle", cli |-> c, status |-> s, node |-> "none",
                 runs |-> 0, computes |-> 0, submits |-> 0, writes |-> 0,
                 last |-> "none"]

\* Status.add_job(..., replace=True): the record of the job is rewritten
AddJob(j) == [j EXCEPT !.status = "submitted", !.writes = j.writes + 1]

\* Status.make_job_file(..., {'job_status': 'successful', ...})
MakeJobFile(j) == [j EXCEPT !.status = "successful", !.writes = j.writes + 1]

\* a local from_config that does not look at the status
FromConfigLocalAlways ==
    /\ job.st = "idle"
    /\ job.runs < MaxRuns
    /\ job' = [AddJob(job) EXCEPT !.st = "computing",
                                  !.computes = job.computes + 1,
                                  !.runs = job.runs + 1,
                                  !.last = "invoked"]
    /\ UNCHANGED <<aggvars, point, sim, pm>>

\* from_config with execution_control.option == 'local':
\* cli_supply_curve.py lines 57-71, cli_multi_year.py lines 60-71
FromConfigLocal ==
    /\ job.st = "idle"
    /\ job.runs < MaxRuns
    /\ IF job.status # "successful"
       THEN job' = [AddJob(job) EXCEPT !.st = "computing",
                                       !.computes = job.computes + 1,
                                       !.runs = job.runs + 1,
                                       !.last = "invoked"]
       ELSE job' = [job EXCEPT !.runs = job.runs + 1, !.last = "skipped"]
    /\ UNCHANGED <<aggvars, point, sim, pm>>

\* the compute invoked by from_config ends: main, cli_supply_curve.py lines
\* 158-189, my_groups, cli_multi_year.py lines 185-208; it records the job
\* as successful, or raises and records nothing
LocalComputeEnds(ok) ==
    /\ job.st = "computing"
    /\ job' = [(IF ok THEN MakeJobFile(job) ELSE job) EXCEPT !.st = "idle"]
    /\ UNCHANGED <<aggvars, point, sim, pm>>

\* eagle, cli_supply_curve.py lines 272-295, collect_eagle,
\* cli_multi_year.py lines 278-306; has_id is what SLURM(...).id gives
Eagle(has_id) ==
    /\ job.st # "none"
    /\ job.runs < MaxRuns
    /\ job.node = "none"
    /\ IF job.status = "successful"
       THEN job' = [job EXCEPT !.runs = job.runs + 1, !.last = "skipped"]
       ELSE IF has_id
            THEN job' = [AddJob(job) EXCEPT !.submits = job.submits + 1,
                                            !.node = "queued",
                                            !.runs = job.runs + 1,
                                            !.last = "submitted"]
            ELSE job' = [job EXCEPT !.runs = job.runs + 1,
                                    !.last = "unable"]
    /\ UNCHANGED <<aggvars, point, sim, pm>>

\* the command of get_node_cmd / get_slurm_cmd runs on the node
NodeRuns(ok) ==
    /\ job.node = "queued"
    /\ job' = [(IF ok THEN MakeJobFile(job) ELSE job) EXCEPT
                  !.node = "none",
                  !.computes = job.computes + 1]
    /\ UNCHANGED <<aggvars, point, sim, pm>>

NextJob ==
    \/ FromConfigLocal
    \/ \E ok \in BOOLEAN : LocalComputeEnds(ok)
    \/ \E has_id \in BOOLEAN : Eagle(has_id)
    \/ \E ok \in BOOLEAN : NodeRuns(ok)

SpecJob == InitJob /\ [][NextJob]_vars

(***************************************************************************)
(* C30  A successful job is never re-run.  A from_config with local        *)
(* execution or an eagle submission command issued while the job is        *)
(* recorded as successful invokes no compute, submits no SLURM job and     *)
(* leaves the status record as it is.                                      *)
(***************************************************************************)
C30_SuccessfulNeverRerun ==
    [][(job.st # "none" /\ job.status = "successful"
        /\ job'.runs = job.runs + 1) =>
          /\ job'.computes = job.computes
          /\ job'.submits = job.submits
          /\ job'.writes = job.writes
          /\ job'.status = "successful"
          /\ job'.st = job.st
          /\ job'.node = job.node
          /\ job'.last = "skipped"]_vars

C30_Witness ==
    /\ job.st = "idle"
    /\ job.status = "successful"
    /\ job.last = "skipped"
    /\ job.submits = 1
    /\ job.computes = 1
    /\ job.writes = 2

====
